---- MODULE Spec2Model ----
(***************************************************************************)
(* A model of the vis analysis code:                                       *)
(*   - IndexedPiece.add_index (models/indexed_piece.py): the settings-     *)
(*     keyed cache of indexer results with its dependency resolution;      *)
(*   - IntervalsStatistics.interval_sorter (models/experimenting.py).      *)
(***************************************************************************)
EXTENDS Integers, Sequences, FiniteSets, TLC

VARIABLES
    data,       \* IndexedPiece._data: indexer name -> (settings string -> result)
    stacks,     \* per caller, the active add_index frames (innermost last)
    outcome,    \* per caller, how its last top-level add_index call ended
    runs,       \* ghost: (indexer, settings) -> number of run() calls that returned
    failures,   \* ghost: number of run() calls that raised
    imports,    \* ghost: number of _import_score() calls on the piece
    calls,      \* ghost: number of top-level add_index calls made so far
    importable, \* whether the module analyzers.indexer can be imported
    left,       \* interval_sorter: first argument
    right,      \* interval_sorter: second argument
    post,       \* the value the function under check returned (or the exception raised)
    args,       \* the arguments of the function under check (real_indexer, perform, ...)
    wm,         \* the WorkflowManager: _loaded, _result, _previous_exp
    log         \* ghost: the calls made on the WorkflowManager, with how each ended

vars == <<data, stacks, outcome, runs, failures, imports, calls, importable, left, right, post,
          args, wm, log>>

pieceVars == <<data, stacks, outcome, runs, failures, imports, calls, importable>>
sorterVars == <<left, right, post>>
managerVars == <<wm, log>>

\* Python's None
None == "None"

\* a value of self._result: None, a list, or a Series with its entries
Result(type, values) == [type |-> type, values |-> values]

\* WorkflowManager.__init__ (workflow.py 83-107)
NewManager == [loaded |-> FALSE, result |-> Result("NoneType", <<>>), previous_exp |-> None]

\* no function is under check and no manager is in use
Unused == args = <<>> /\ wm = NewManager /\ log = <<>>

----------------------------------------------------------------------------
(* Bounds of the model *)

MaxCalls == 2           \* top-level add_index calls in one behaviour
MaxFailures == 1        \* run() calls that raise in one behaviour
RecursionLimit == 4     \* frames the interpreter allows before RuntimeError
MaxConcCalls == 2       \* top-level add_index calls in the concurrent model
MaxSize == 12           \* largest generic size of an interval label

Callers == {1, 2}

----------------------------------------------------------------------------
(* dict helpers *)

EmptyDict == [k \in {} |-> 0]

DictSet(d, k, v) == [x \in (DOMAIN d) \cup {k} |-> IF x = k THEN v ELSE d[x]]

\* unicode(a_dict): the items in some order; the order of a dict's keys under
\* str() is not fixed (comment at indexed_piece.py 71-74).
unicode(d) ==
    LET n == Cardinality(DOMAIN d)
        orders == {p \in [1..n -> DOMAIN d] : \A a, b \in 1..n : a # b => p[a] # p[b]}
    IN  {[j \in 1..n |-> <<p[j], d[p[j]]>>] : p \in orders}

\* eval(settings_string): back to the dict
eval(s) ==
    [k \in {s[j][1] : j \in DOMAIN s} |-> s[CHOOSE j \in DOMAIN s : s[j][1] = k][2]]

----------------------------------------------------------------------------
(* The indexers the piece can be asked for.  Each Indexer class declares   *)
(* possible_settings, default_settings, requires_score, required_indices.  *)

KnownIndexers ==
    {"NoteRestIndexer", "OffsetIndexer", "IntervalIndexer", "NGramIndexer",
     "CycleA", "CycleB"}

\* the names a caller asks for ("CycleB" is reached through "CycleA")
RequestNames == (KnownIndexers \ {"CycleB"}) \cup {"Bogus"}

possible_settings(u) ==
    CASE u = "IntervalIndexer" -> <<"quality">>
      [] u = "NGramIndexer" -> <<"quality", "n">>
      [] OTHER -> <<>>

default_settings(u) ==
    CASE u = "IntervalIndexer" -> [quality |-> 0]
      [] u = "NGramIndexer" -> [quality |-> 0]
      [] OTHER -> EmptyDict

requires_score(u) == u \in {"NoteRestIndexer", "OffsetIndexer"}

required_indices(u) ==
    CASE u = "IntervalIndexer" -> <<"NoteRestIndexer">>
      [] u = "NGramIndexer" -> <<"IntervalIndexer">>
      [] u = "CycleA" -> <<"CycleB">>
      [] u = "CycleB" -> <<"CycleA">>
      [] OTHER -> <<>>

\* the which_settings dicts a caller passes
SettingsChoices ==
    {EmptyDict, [quality |-> 1], [quality |-> 0, n |-> 2],
     [quality |-> 1, n |-> 2], [n |-> 2, extra |-> 1]}

\* the which_indexers lists a caller passes: one indexer, or two in any order
\* (twice the same one included)
Requests ==
    {<<a>> : a \in RequestNames} \cup {<<a, b>> : a, b \in RequestNames}

----------------------------------------------------------------------------
(* add_index: the frame of one activation *)

NewFrame(which_indexers, which_settings) ==
    [which_indexers |-> which_indexers,
     which_settings |-> which_settings,
     missing_indexers |-> <<>>,
     missing_settings |-> <<>>,
     the_score |-> FALSE,          \* FALSE: None; TRUE: the imported Score
     i |-> 1,                      \* position of this_indexer in which_indexers
     pc |-> "loop",
     this_settings |-> EmptyDict,
     r |-> 1,                      \* position of ind in req_ind
     nimports |-> 0]               \* ghost: _import_score() calls of this frame

Top(c) == stacks[c][Len(stacks[c])]

SetTop(c, f) == [stacks EXCEPT ![c] = [@ EXCEPT ![Len(@)] = f]]

this_indexer(f) == f.which_indexers[f.i]

Idle == [status |-> "idle", exc |-> "", names |-> <<>>,
         which_indexers |-> <<>>, which_settings |-> EmptyDict]

\* an exception leaves add_index: nothing in add_index catches it, so every
\* frame of the caller is unwound
\* (outcome keeps the arguments of the activation that raised)
Raise(c, exc, names) ==
    /\ stacks' = [stacks EXCEPT ![c] = <<>>]
    /\ outcome' = [outcome EXCEPT ![c] =
                     [status |-> "raised", exc |-> exc, names |-> names,
                      which_indexers |-> Top(c).which_indexers,
                      which_settings |-> Top(c).which_settings]]

----------------------------------------------------------------------------
(* add_index: the settings of one indexer and the cache lookup *)

RECURSIVE this_settings_loop(_, _, _, _)
this_settings_loop(poss_sett, def_sett, which_settings, acc) ==
    IF poss_sett = <<>>
      THEN [spoiled |-> FALSE, dict |-> acc]
      ELSE LET sett == Head(poss_sett)
           IN  IF sett \in DOMAIN which_settings
                 THEN this_settings_loop(Tail(poss_sett), def_sett, which_settings,
                                         DictSet(acc, sett, which_settings[sett]))
               ELSE IF sett \in DOMAIN def_sett
                 THEN this_settings_loop(Tail(poss_sett), def_sett, which_settings,
                                         DictSet(acc, sett, def_sett[sett]))
               ELSE [spoiled |-> TRUE, dict |-> EmptyDict]

RECURSIVE defaults_first_loop(_, _, _, _)
defaults_first_loop(poss_sett, def_sett, which_settings, acc) ==
    IF poss_sett = <<>>
      THEN [spoiled |-> FALSE, dict |-> acc]
      ELSE LET sett == Head(poss_sett)
           IN  IF sett \in DOMAIN def_sett
                 THEN defaults_first_loop(Tail(poss_sett), def_sett, which_settings,
                                          DictSet(acc, sett, def_sett[sett]))
               ELSE IF sett \in DOMAIN which_settings
                 THEN defaults_first_loop(Tail(poss_sett), def_sett, which_settings,
                                          DictSet(acc, sett, which_settings[sett]))
               ELSE [spoiled |-> TRUE, dict |-> EmptyDict]

this_settings_defaults_first(u, which_settings) ==
    defaults_first_loop(possible_settings(u), default_settings(u), which_settings,
                        EmptyDict)

\* lines 228-238
this_settings(u, which_settings) ==
    this_settings_loop(possible_settings(u), default_settings(u), which_settings,
                       EmptyDict)

found_never(d, u, settings) == FALSE

found_by_string(d, u, settings) ==
    /\ u \in DOMAIN d
    /\ \E each_setts \in DOMAIN d[u] :
          each_setts = (CHOOSE s \in unicode(settings) :
                          \A j \in 1..(Len(s) - 1) : s[j][1] = "quality")

\* lines 244-249: is there an index of this indexer with the same settings?
found(d, u, settings) ==
    /\ u \in DOMAIN d
    /\ \E each_setts \in DOMAIN d[u] : eval(each_setts) = settings

----------------------------------------------------------------------------
(* add_index: the steps of one caller c *)

\* a caller enters add_index(which_indexers, which_settings)
Enter(c, which_indexers, which_settings) ==
    /\ stacks[c] = <<>>
    /\ stacks' = [stacks EXCEPT ![c] = <<NewFrame(which_indexers, which_settings)>>]
    /\ outcome' = [outcome EXCEPT ![c] = [Idle EXCEPT !.status = "running"]]
    /\ calls' = calls + 1
    /\ UNCHANGED <<data, runs, failures, imports, importable, sorterVars, args, managerVars>>

Call(c) ==
    /\ calls < MaxCalls
    /\ \E which_indexers \in Requests, which_settings \in SettingsChoices :
          Enter(c, which_indexers, which_settings)

\* lines 215-223: __import__(u'analyzers.indexer', ..., this_indexer, -1) raises
\* ImportError when the module analyzers.indexer cannot be imported; a name of
\* the fromlist that the module lacks raises nothing (the interpreter looks
\* fromlist names up only to import submodules of a package, and skips those
\* it does not find)
import_fails(u) == ~importable

\* lines 228-229: eval(u'i_module.' + this_indexer + u'.possible_settings')
\* raises AttributeError when the module has no such class
class_missing(u) == u \notin KnownIndexers

\* lines 212-249: the import, the indexer's settings, the cache lookup
Resolve(c) ==
    /\ stacks[c] # <<>>
    /\ Top(c).pc = "loop"
    /\ Top(c).i <= Len(Top(c).which_indexers)
    /\ import_fails(this_indexer(Top(c))) \/ ~class_missing(this_indexer(Top(c)))
    /\ LET f == Top(c)
           u == this_indexer(f)
           ts == this_settings(u, f.which_settings)
       IN  stacks' = SetTop(c,
              IF import_fails(u) THEN [f EXCEPT !.pc = "missing"]
              ELSE IF ts.spoiled THEN [f EXCEPT !.pc = "spoiled"]
              ELSE IF found(data, u, ts.dict)
                THEN [f EXCEPT !.pc = "found", !.this_settings = ts.dict]
              ELSE [f EXCEPT !.pc = "require", !.this_settings = ts.dict, !.r = 1])
    /\ UNCHANGED <<data, outcome, runs, failures, imports, calls, importable, sorterVars, args, managerVars>>

\* line 228: the module is there and has no class of that name; nothing in
\* add_index catches the AttributeError
UnknownClass(c) ==
    /\ stacks[c] # <<>>
    /\ Top(c).pc = "loop"
    /\ Top(c).i <= Len(Top(c).which_indexers)
    /\ ~import_fails(this_indexer(Top(c)))
    /\ class_missing(this_indexer(Top(c)))
    /\ Raise(c, "AttributeError", <<this_indexer(Top(c))>>)
    /\ UNCHANGED <<data, runs, failures, imports, calls, importable, sorterVars, args, managerVars>>

\* lines 221-223, 239-241, 250-251: the three "continue" statements
Continue(c) ==
    /\ stacks[c] # <<>>
    /\ Top(c).pc \in {"missing", "spoiled", "found"}
    /\ LET f == Top(c)
           g == [f EXCEPT !.pc = "loop", !.i = @ + 1,
                          !.this_settings = EmptyDict]
       IN  stacks' = SetTop(c,
              CASE f.pc = "missing" ->
                     [g EXCEPT !.missing_indexers = Append(@, this_indexer(f))]
                [] f.pc = "spoiled" ->
                     [g EXCEPT !.missing_settings = Append(@, this_indexer(f))]
                [] f.pc = "found" -> g)
    /\ UNCHANGED <<data, outcome, runs, failures, imports, calls, importable, sorterVars, args, managerVars>>

import_always(f) == TRUE

\* line 256: the score is imported when this frame has not imported it yet
must_import(f) == ~f.the_score

\* lines 255-258: the indexer requires the score
ImportScore(c) ==
    /\ stacks[c] # <<>>
    /\ Top(c).pc = "require"
    /\ requires_score(this_indexer(Top(c)))
    /\ LET f == Top(c)
       IN  IF must_import(f)
             THEN /\ stacks' = SetTop(c, [f EXCEPT !.pc = "run", !.the_score = TRUE,
                                                   !.nimports = @ + 1])
                  /\ imports' = imports + 1
             ELSE /\ stacks' = SetTop(c, [f EXCEPT !.pc = "run"])
                  /\ imports' = imports
    /\ UNCHANGED <<data, outcome, runs, failures, calls, importable, sorterVars, args, managerVars>>

\* line 264: is the required index there?
index_present(d, ind) == ind \in DOMAIN d

\* lines 262-265: the next required index; run it first when it is not there
RequireIndex(c) ==
    /\ stacks[c] # <<>>
    /\ Top(c).pc = "require"
    /\ ~requires_score(this_indexer(Top(c)))
    /\ Top(c).r <= Len(required_indices(this_indexer(Top(c))))
    /\ LET f == Top(c)
           ind == required_indices(this_indexer(f))[f.r]
           g == [f EXCEPT !.r = @ + 1]
       IN  IF index_present(data, ind)
             THEN /\ stacks' = SetTop(c, g)
                  /\ outcome' = outcome
             ELSE IF Len(stacks[c]) < RecursionLimit
                    THEN /\ stacks' = [stacks EXCEPT ![c] =
                               Append(SubSeq(@, 1, Len(@) - 1), g)
                                 \o <<NewFrame(<<ind>>, f.which_settings)>>]
                         /\ outcome' = outcome
                    ELSE Raise(c, "maximum recursion depth exceeded", <<>>)
    /\ UNCHANGED <<data, runs, failures, imports, calls, importable, sorterVars, args, managerVars>>

\* all that line 253-265 asks for is done: the indexer is about to run
ReadyToRun(f) ==
    \/ f.pc = "run"
    \/ /\ f.pc = "require"
       /\ ~requires_score(this_indexer(f))
       /\ f.r > Len(required_indices(this_indexer(f)))

RunCount(p) == IF p \in DOMAIN runs THEN runs[p] ELSE 0

\* lines 271-272: the indexer's dict of results is created before run()
with_entry(d, u) ==
    IF u \in DOMAIN d THEN d ELSE [x \in (DOMAIN d) \cup {u} |-> IF x = u THEN EmptyDict ELSE d[x]]

\* lines 268-273: the indexer runs and returns its result
Run(c) ==
    /\ stacks[c] # <<>>
    /\ ReadyToRun(Top(c))
    /\ LET f == Top(c)
           p == <<this_indexer(f), f.this_settings>>
       IN  /\ data' = with_entry(data, this_indexer(f))
           /\ runs' = [x \in (DOMAIN runs) \cup {p} |->
                         IF x = p THEN RunCount(p) + 1 ELSE runs[x]]
           /\ stacks' = SetTop(c, [f EXCEPT !.pc = "store"])
    /\ UNCHANGED <<outcome, failures, imports, calls, importable, sorterVars, args, managerVars>>

\* lines 268-273: run() raises
RunRaises(c) ==
    /\ stacks[c] # <<>>
    /\ ReadyToRun(Top(c))
    /\ failures < MaxFailures
    /\ data' = with_entry(data, this_indexer(Top(c)))
    /\ failures' = failures + 1
    /\ Raise(c, "run", <<this_indexer(Top(c))>>)
    /\ UNCHANGED <<runs, imports, calls, importable, sorterVars, args, managerVars>>

\* line 273: the result is stored under unicode(this_settings)
\* (verbatim is a ghost: the caller's dict was itself the indexer's settings)
Store(c) ==
    /\ stacks[c] # <<>>
    /\ Top(c).pc = "store"
    /\ LET f == Top(c)
           u == this_indexer(f)
       IN  /\ \E key \in unicode(f.this_settings) :
                 data' = [data EXCEPT ![u] =
                            DictSet(@, key,
                                    [settings |-> f.this_settings,
                                     verbatim |-> f.which_settings = f.this_settings])]
           /\ stacks' = SetTop(c, [f EXCEPT !.pc = "loop", !.i = @ + 1,
                                            !.this_settings = EmptyDict])
    /\ UNCHANGED <<outcome, runs, failures, imports, calls, importable, sorterVars, args, managerVars>>

\* the names the second message is built from (line 285)
names_of_missing_settings(f) == f.missing_indexers

\* lines 279-286: the loop is over and an indexer was missing or lacked a setting
RaiseMissing(c) ==
    /\ stacks[c] # <<>>
    /\ Top(c).pc = "loop"
    /\ Top(c).i > Len(Top(c).which_indexers)
    /\ \/ Top(c).missing_indexers # <<>>
       \/ Top(c).missing_settings # <<>>
    /\ IF Top(c).missing_indexers # <<>>
         THEN Raise(c, "Unable to import requested Indexers", Top(c).missing_indexers)
         ELSE Raise(c, "Indexers missing required settings",
                    names_of_missing_settings(Top(c)))
    /\ UNCHANGED <<data, runs, failures, imports, calls, importable, sorterVars, args, managerVars>>

\* the loop is over and nothing was missing: add_index returns
Return(c) ==
    /\ stacks[c] # <<>>
    /\ Top(c).pc = "loop"
    /\ Top(c).i > Len(Top(c).which_indexers)
    /\ Top(c).missing_indexers = <<>>
    /\ Top(c).missing_settings = <<>>
    /\ stacks' = [stacks EXCEPT ![c] = SubSeq(@, 1, Len(@) - 1)]
    /\ outcome' = IF Len(stacks[c]) = 1
                    THEN [outcome EXCEPT ![c].status = "returned"]
                    ELSE outcome
    /\ UNCHANGED <<data, runs, failures, imports, calls, importable, sorterVars, args, managerVars>>

----------------------------------------------------------------------------
(* One caller: the calls of add_index follow one another *)

InitPiece ==
    /\ data = EmptyDict
    /\ stacks = [c \in Callers |-> <<>>]
    /\ outcome = [c \in Callers |-> Idle]
    /\ runs = EmptyDict
    /\ failures = 0
    /\ imports = 0
    /\ calls = 0

Pending == [status |-> "pending", value |-> 0]

Init ==
    /\ InitPiece
    /\ importable \in BOOLEAN
    /\ left = <<>>
    /\ right = <<>>
    /\ post = Pending
    /\ Unused

Next ==
    \/ Call(1)
    \/ Resolve(1)
    \/ UnknownClass(1)
    \/ Continue(1)
    \/ ImportScore(1)
    \/ RequireIndex(1)
    \/ Run(1)
    \/ RunRaises(1)
    \/ Store(1)
    \/ RaiseMissing(1)
    \/ Return(1)

Spec == Init /\ [][Next]_vars

----------------------------------------------------------------------------
(* Two callers: threads that call add_index on the same IndexedPiece.  The  *)
(* method takes no lock, so the steps of the two interleave.                *)

ConcRequests ==
    {<<"NoteRestIndexer">>, <<"IntervalIndexer">>, <<"NGramIndexer">>, <<"Bogus">>}

ConcSettings == {EmptyDict, [n |-> 2]}

CallConc(c) ==
    /\ calls < MaxConcCalls
    /\ \E which_indexers \in ConcRequests, which_settings \in ConcSettings :
          Enter(c, which_indexers, which_settings)

NextConc ==
    \E c \in Callers :
       \/ CallConc(c)
       \/ Resolve(c)
       \/ UnknownClass(c)
       \/ Continue(c)
       \/ ImportScore(c)
       \/ RequireIndex(c)
       \/ Run(c)
       \/ RunRaises(c)
       \/ Store(c)
       \/ RaiseMissing(c)
       \/ Return(c)

SpecConc == Init /\ [][NextConc]_vars

----------------------------------------------------------------------------
(* IntervalsStatistics.interval_sorter (models/experimenting.py 496-558).   *)
(* A label is the sequence of its characters.                               *)

string_digits == {"0", "1", "2", "3", "4", "5", "6", "7", "8", "9"}

list_of_directions == {"+", "-"}

DigitChar(d) == <<"0", "1", "2", "3", "4", "5", "6", "7", "8", "9">>[d + 1]

DigitValue(ch) == CHOOSE d \in 0..9 : DigitChar(d) = ch

\* str() of a size below 100
SizeString(n) == IF n < 10 THEN <<DigitChar(n)>> ELSE <<DigitChar(n \div 10), DigitChar(n % 10)>>

Qualities == {<<>>, <<"d">>, <<"m">>, <<"P">>, <<"M">>, <<"A">>}

Directions == {<<>>, <<"+">>, <<"-">>}

\* the interval labels: direction sign, quality letter (or none), generic size
Labels == {dir \o q \o SizeString(n) : dir \in Directions, q \in Qualities, n \in 1..MaxSize}

\* lines 523-525: left.replace(direct, '') for both directions
strip_directions(label) == SelectSeq(label, LAMBDA ch : ch \notin list_of_directions)

\* int() accepts a non-empty string of digits and raises ValueError otherwise
int_ok(str) == str # <<>> /\ \A j \in DOMAIN str : str[j] \in string_digits

RECURSIVE int(_)
int(str) == IF str = <<>> THEN 0 ELSE 10 * int(SubSeq(str, 1, Len(str) - 1)) + DigitValue(str[Len(str)])

Returned(value) == [status |-> "returned", value |-> value]

\* lines 540-556: the generic sizes are equal, the quality decides
compare_qualities(left_qual, right_qual) ==
    IF left_qual = "d" THEN -1
    ELSE IF right_qual = "d" THEN 1
    ELSE IF left_qual = "A" THEN 1
    ELSE IF right_qual = "A" THEN -1
    ELSE IF left_qual = "m" THEN -1
    ELSE IF right_qual = "m" THEN 1
    ELSE 0

\* lines 517-558
interval_sorter(left_arg, right_arg) ==
    LET l0 == strip_directions(left_arg)
        r0 == strip_directions(right_arg)
        both_bare == l0[1] \in string_digits /\ r0[1] \in string_digits
        l == IF both_bare THEN <<"P">> \o l0 ELSE l0
        r == IF both_bare THEN <<"P">> \o r0 ELSE r0
    IN  IF l = r THEN Returned(0)
        ELSE IF ~int_ok(Tail(l)) \/ ~int_ok(Tail(r))
          THEN [status |-> "ValueError", value |-> 0]
        ELSE IF int(Tail(l)) < int(Tail(r)) THEN Returned(-1)
        ELSE IF int(Tail(l)) > int(Tail(r)) THEN Returned(1)
        ELSE Returned(compare_qualities(l[1], r[1]))

InitSorter ==
    /\ InitPiece
    /\ importable = TRUE
    /\ left \in Labels
    /\ right \in Labels
    /\ post = Pending
    /\ Unused

\* interval_sorter(left, right) is called
Compare ==
    /\ post = Pending
    /\ post' = interval_sorter(left, right)
    /\ UNCHANGED <<left, right, pieceVars, args, managerVars>>

NextSorter == Compare

SpecSorter == InitSorter /\ [][NextSorter]_vars

----------------------------------------------------------------------------
(* What the claims speak of *)

Declared(u) == {possible_settings(u)[j] : j \in DOMAIN possible_settings(u)}

\* some declared setting is neither supplied nor has a default
LacksSetting(u, which_settings) ==
    \E s \in Declared(u) : s \notin DOMAIN which_settings
                           /\ s \notin DOMAIN default_settings(u)

\* the supplied value if present, else the default
Effective(u, which_settings) ==
    [s \in Declared(u) |->
       IF s \in DOMAIN which_settings THEN which_settings[s]
       ELSE default_settings(u)[s]]

Stored(u, settings) ==
    u \in DOMAIN data /\ \E k \in DOMAIN data[u] : eval(k) = settings

\* the active frames of every caller
Frames == UNION {{stacks[c][j] : j \in 1..Len(stacks[c])} : c \in Callers}

\* the frames that are working on an indexer
Busy == {f \in Frames : f.i <= Len(f.which_indexers)}

Aggregate == {"Unable to import requested Indexers",
              "Indexers missing required settings"}

----------------------------------------------------------------------------
(* C1 *)

\* C1: on one piece, run() returns at most once for each (indexer, effective
\* settings): every stored result was computed by exactly one run, and no pair
\* is ever run a second time, within one call or over several calls.
C1_RunOncePerSettings ==
    /\ \A p \in DOMAIN runs : runs[p] = 1
    /\ \A u \in DOMAIN data : \A k \in DOMAIN data[u] : RunCount(<<u, eval(k)>>) = 1

\* a later call finds the stored result of an earlier run and goes on
C1_Witness ==
    /\ calls = 2
    /\ stacks[1] # <<>>
    /\ Top(1).pc = "found"
    /\ RunCount(<<this_indexer(Top(1)), Top(1).this_settings>>) = 1

(* C2 *)

\* C2: whenever the settings a request resolves to for an indexer (defaults
\* applied, undeclared settings dropped) equal the settings of a stored entry,
\* whatever the order of the keys in its settings string, the lookup finds the
\* entry and adds nothing; so no indexer ever has two entries whose settings
\* strings evaluate to equal dicts.
C2_OneEntryPerEffectiveSettings ==
    [][/\ \A u \in DOMAIN data' :
            \A k1, k2 \in DOMAIN data'[u] : eval(k1) = eval(k2) => k1 = k2
       /\ (/\ stacks[1] # <<>>
           /\ stacks'[1] # stacks[1]
           /\ Top(1).pc = "loop"
           /\ Top(1).i <= Len(Top(1).which_indexers)
           /\ importable
           /\ this_indexer(Top(1)) \in KnownIndexers
           /\ ~LacksSetting(this_indexer(Top(1)), Top(1).which_settings)
           /\ Stored(this_indexer(Top(1)),
                     Effective(this_indexer(Top(1)), Top(1).which_settings)))
          => /\ Len(stacks'[1]) = Len(stacks[1])
             /\ Top(1)'.pc = "found"
             /\ data' = data]_vars

\* a request whose dict names an undeclared setting and leaves a default out
\* hits the entry made from a dict that was itself the settings, stored with
\* its keys in the other order
C2_Witness ==
    /\ stacks[1] # <<>>
    /\ Top(1).pc = "found"
    /\ this_indexer(Top(1)) = "NGramIndexer"
    /\ Top(1).which_settings = [n |-> 2, extra |-> 1]
    /\ \E k \in DOMAIN data["NGramIndexer"] :
          /\ eval(k) = Top(1).this_settings
          /\ k[1][1] = "n"
          /\ data["NGramIndexer"][k].verbatim

(* C3 *)

\* C3: the settings an indexer is looked up, run and stored with are, for each
\* declared setting, the supplied value if present, else the default; when a
\* declared setting has neither, the indexer is spoiled, and the step that
\* follows records it in missing_settings, runs nothing, leaves the cache as it
\* is and moves on to the next requested indexer.
C3_EffectiveSettings ==
    [][/\ \A f \in Busy' :
            /\ f.pc \in {"spoiled", "found", "require", "run", "store"} =>
                  (f.pc = "spoiled" <=> LacksSetting(this_indexer(f), f.which_settings))
            /\ f.pc \in {"found", "require", "run", "store"} =>
                  f.this_settings = Effective(this_indexer(f), f.which_settings)
       /\ (stacks[1] # <<>> /\ Top(1).pc = "spoiled") =>
            /\ Len(stacks'[1]) = Len(stacks[1])
            /\ Top(1)' = [Top(1) EXCEPT
                            !.missing_settings = Append(@, this_indexer(Top(1))),
                            !.i = @ + 1, !.pc = "loop"]
            /\ data' = data
            /\ runs' = runs]_vars

\* an indexer lacking a setting was recorded and the next one has been run
C3_Witness ==
    /\ stacks[1] # <<>>
    /\ Top(1).missing_settings = <<"NGramIndexer">>
    /\ Top(1).pc = "store"
    /\ this_indexer(Top(1)) = "IntervalIndexer"
    /\ Top(1).this_settings = [quality |-> 1]

(* C4 *)

\* the indexers of a request that are unknown or lack a required setting
Faulty(which_indexers, which_settings) ==
    {which_indexers[j] : j \in
       {x \in DOMAIN which_indexers :
          \/ ~importable
          \/ which_indexers[x] \notin KnownIndexers
          \/ LacksSetting(which_indexers[x], which_settings)}}

\* C4: the aggregate error raised at the end of a request names every unknown
\* indexer and every indexer with missing settings of that request.
C4_AggregateNamesAll ==
    \A c \in Callers :
       (outcome[c].status = "raised" /\ outcome[c].exc \in Aggregate) =>
          {outcome[c].names[j] : j \in DOMAIN outcome[c].names}
             = Faulty(outcome[c].which_indexers, outcome[c].which_settings)

(* C5 *)

\* C5: when a request ends in an error because one of its indexers is unknown
\* or lacks a required setting, every other indexer of that request (one that
\* exists and has all its settings) has its result in the cache, wherever it
\* stands in the request.
C5_OthersStillCached ==
    \A c \in Callers :
       (/\ importable
        /\ outcome[c].status = "raised"
        /\ outcome[c].exc \in Aggregate \cup {"AttributeError"}) =>
          \A j \in DOMAIN outcome[c].which_indexers :
             LET u == outcome[c].which_indexers[j]
             IN  (u \in KnownIndexers /\ ~LacksSetting(u, outcome[c].which_settings))
                   => Stored(u, Effective(u, outcome[c].which_settings))

(* C6 *)

\* C6: when an indexer is about to run, the cache holds the result of every
\* index it requires under the settings of the current request (stated for the
\* behaviours in which no run() has raised).
C6_UpstreamReady ==
    \A c \in Callers :
       (failures = 0 /\ stacks[c] # <<>> /\ ReadyToRun(Top(c))) =>
          LET req_ind == required_indices(this_indexer(Top(c)))
          IN  \A j \in DOMAIN req_ind :
                 Stored(req_ind[j], Effective(req_ind[j], Top(c).which_settings))

(* C7 *)

\* C7: a cycle of required indices is reported as a CyclicDependency error: the
\* resolution never enters an indexer it is already resolving, and no request
\* ends because the recursion ran out.
C7_CycleReported ==
    \A c \in Callers :
       /\ \A a, b \in 1..Len(stacks[c]) :
             (a < b /\ stacks[c][a].i <= Len(stacks[c][a].which_indexers)
                    /\ stacks[c][b].i <= Len(stacks[c][b].which_indexers))
                => this_indexer(stacks[c][a]) # this_indexer(stacks[c][b])
       /\ outcome[c].exc # "maximum recursion depth exceeded"

(* C8 *)

C9_SingleFlight == \A p \in DOMAIN runs : runs[p] <= 1

(* C10 *)

\* C10: interval_sorter returns a value for every two labels, the value for
\* (b, a) is the negation of the value for (a, b), and a label compared with
\* itself gives 0.
C10_Antisymmetric ==
    post # Pending =>
       /\ post.status = "returned"
       /\ interval_sorter(right, left).status = "returned"
       /\ post.value = -interval_sorter(right, left).value
       /\ left = right => post.value = 0

----------------------------------------------------------------------------
(* The order the sorter is said to implement *)

\* the quality letter of a label, a bare numeral counting as perfect
QualityOf(label) ==
    LET l == strip_directions(label)
    IN  IF l[1] \in string_digits THEN "P" ELSE l[1]

\* the generic size of a label
SizeOf(label) ==
    LET l == strip_directions(label)
    IN  IF l[1] \in string_digits THEN int(l) ELSE int(Tail(l))

\* diminished < minor < perfect/unspecified < major < augmented
QualityRank(q) ==
    CASE q = "d" -> 1 [] q = "m" -> 2 [] q = "P" -> 3 [] q = "M" -> 4 [] q = "A" -> 5

Sign(a, b) == IF a < b THEN -1 ELSE IF a > b THEN 1 ELSE 0

\* by generic size, then by quality rank
RankOrder(a, b) ==
    IF SizeOf(a) # SizeOf(b) THEN Sign(SizeOf(a), SizeOf(b))
    ELSE Sign(QualityRank(QualityOf(a)), QualityRank(QualityOf(b)))

IsBare(label) == strip_directions(label)[1] \in string_digits

\* C11: for two labels of the same form (both with a quality letter or both
\* bare), interval_sorter returns their order by generic size and then by the
\* rank d < m < P/unspecified < M < A, so 0 only for equal size and quality.
C11_SizeThenQualityRank ==
    (post # Pending /\ IsBare(left) = IsBare(right))
    => /\ post.status = "returned"
       /\ post.value = RankOrder(left, right)

----------------------------------------------------------------------------
(* IntervalNGramStatistics.ngram_sorter (models/experimenting.py 741-806).  *)
(* An n-gram is the sequence of the characters of its string.               *)

MaxTokens == 3          \* most tokens of an n-gram string

\* str.strip(): no leading and no trailing space
RECURSIVE strip(_)
strip(str) ==
    IF str = <<>> THEN str
    ELSE IF Head(str) = " " THEN strip(Tail(str))
    ELSE IF str[Len(str)] = " " THEN strip(SubSeq(str, 1, Len(str) - 1))
    ELSE str

\* str.find(' '): the 0-based index of the first space, -1 when there is none
find(str) ==
    IF \E j \in DOMAIN str : str[j] = " "
      THEN (CHOOSE j \in DOMAIN str : str[j] = " " /\ \A k \in 1..(j - 1) : str[k] # " ") - 1
      ELSE -1

\* the first token of an n-gram string
first_token(str) == IF find(str) = -1 THEN str ELSE SubSeq(str, 1, find(str))

\* a sorter that looks at the first tokens only
ngram_sorter_by_first(left_arg, right_arg) ==
    interval_sorter(first_token(strip(left_arg)), first_token(strip(right_arg)))

\* lines 774-806
RECURSIVE ngram_sorter(_, _)
ngram_sorter(left_arg, right_arg) ==
    LET l == strip(left_arg)
        r == strip(right_arg)
        left_find == find(l)
        right_find == find(r)
    IN  IF left_find = -1
          THEN IF right_find = -1 THEN interval_sorter(l, r) ELSE Returned(-1)
        ELSE IF right_find = -1 THEN Returned(1)
        ELSE LET possible_result == interval_sorter(SubSeq(l, 1, left_find),
                                                    SubSeq(r, 1, right_find))
             IN  IF possible_result.status # "returned" \/ possible_result.value # 0
                   THEN possible_result
                 ELSE ngram_sorter(SubSeq(l, left_find + 2, Len(l)),
                                   SubSeq(r, right_find + 2, Len(r)))

\* the tokens of the n-grams: without quality (3, +2, -2) and with (m3, M3, -M2)
BareTokens == {<<"3">>, <<"+", "2">>, <<"-", "2">>}

QualityTokens == {<<"m", "3">>, <<"M", "3">>, <<"-", "M", "2">>}

\* ' '.join(tokens)
RECURSIVE join(_)
join(tokens) ==
    IF Len(tokens) = 1 THEN tokens[1]
    ELSE tokens[1] \o <<" ">> \o join(Tail(tokens))

TokenLists(tokens) == UNION {[1..n -> tokens] : n \in 1..MaxTokens}

NGramStrings(quality) ==
    {join(ts) : ts \in TokenLists(IF quality THEN QualityTokens ELSE BareTokens)}

InitNGramSorter ==
    /\ InitPiece
    /\ importable = TRUE
    /\ \E quality \in BOOLEAN :
          /\ left \in NGramStrings(quality)
          /\ right \in NGramStrings(quality)
    /\ post = Pending
    /\ Unused

\* ngram_sorter(left, right) is called
CompareNGrams ==
    /\ post = Pending
    /\ post' = ngram_sorter(left, right)
    /\ UNCHANGED <<left, right, pieceVars, args, managerVars>>

NextNGramSorter == CompareNGrams

SpecNGramSorter == InitNGramSorter /\ [][NextNGramSorter]_vars

----------------------------------------------------------------------------
(* What the n-gram claims speak of *)

\* the tokens of an n-gram string
RECURSIVE Split(_)
Split(str) ==
    IF find(str) = -1 THEN <<str>>
    ELSE <<SubSeq(str, 1, find(str))>> \o Split(SubSeq(str, find(str) + 2, Len(str)))

IsPrefix(p, s) == Len(p) <= Len(s) /\ SubSeq(s, 1, Len(p)) = p

IsProperPrefix(p, s) == IsPrefix(p, s) /\ Len(p) < Len(s)

\* C12: an n-gram compared with itself gives 0, and a proper prefix (same
\* start, fewer tokens) compared with the longer n-gram gives -1.
C12_SelfZeroPrefixSmaller ==
    post # Pending =>
       /\ left = right => post = Returned(0)
       /\ IsProperPrefix(Split(left), Split(right)) => post = Returned(-1)

C12_Witness ==
    /\ post = Returned(-1)
    /\ Len(Split(left)) = 2
    /\ Len(Split(right)) = 3
    /\ IsProperPrefix(Split(left), Split(right))

\* the positions both n-grams have where interval_sorter tells the tokens apart
Differing(a, b) ==
    {k \in 1..Len(a) : k <= Len(b) /\ interval_sorter(a[k], b[k]) # Returned(0)}

FirstDiffering(a, b) == CHOOSE k \in Differing(a, b) : \A j \in Differing(a, b) : k <= j

\* C13: when neither token sequence is a prefix of the other, the result is
\* interval_sorter's result at the first position where it is not 0.
C13_FirstNonZeroToken ==
    LET a == Split(left)
        b == Split(right)
    IN  (post # Pending /\ ~IsPrefix(a, b) /\ ~IsPrefix(b, a) /\ Differing(a, b) # {})
        => post = interval_sorter(a[FirstDiffering(a, b)], b[FirstDiffering(a, b)])

----------------------------------------------------------------------------
(* real_indexer (vis/analyzers/indexers/interval.py 105-151).               *)
(* An event is the sequence of the characters of its name: a step letter    *)
(* and an octave digit, or 'Rest'.                                          *)

MaxOctave == 5          \* highest octave of the pitches (the lowest is 4)

Rest == <<"R", "e", "s", "t">>

StepNames == <<"C", "D", "E", "F", "G", "A", "B">>

\* semitones of the natural steps above C
StepSemitones == <<0, 2, 4, 5, 7, 9, 11>>

PitchNames == {<<StepNames[s], DigitChar(o)>> : s \in 1..7, o \in 4..MaxOctave}

Events == PitchNames \cup {Rest}

\* the simultaneities: two events, and a few of another length
Simultaneities ==
    {<<upper, lower>> : upper, lower \in Events} \cup {<<event>> : event \in {Rest, <<"C", "4">>}}

\* note.Note(name) raises PitchException unless the name begins with a step
pitch_ok(name) == \E s \in 1..7 : name[1] = StepNames[s]

StepOf(name) == CHOOSE s \in 1..7 : name[1] = StepNames[s]

\* diatonic note number and pitch space (semitones) of a pitch
dnn(name) == 7 * DigitValue(name[2]) + StepOf(name)

ps(name) == 12 * DigitValue(name[2]) + StepSemitones[StepOf(name)]

Abs(n) == IF n < 0 THEN -n ELSE n

\* interval.Interval(note.Note(lower), note.Note(upper)): what real_indexer reads
Interval(lower, upper) ==
    LET steps == dnn(upper) - dnn(lower)
        semitones == ps(upper) - ps(lower)
        undirected == Abs(steps) + 1
        simpleSteps == Abs(steps) % 7
        \* semitones of the major or perfect interval of this simple size
        natural == StepSemitones[simpleSteps + 1]
        off == (Abs(semitones) % 12) - natural
        perfect == simpleSteps \in {0, 3, 4}
        quality == IF perfect
                     THEN (CASE off = 0 -> "P" [] off = 1 -> "A" [] off = -1 -> "d")
                     ELSE (CASE off = 0 -> "M" [] off = -1 -> "m" [] off = 1 -> "A"
                             [] off = -2 -> "d")
    IN  [direction |-> IF steps < 0 THEN -1 ELSE IF steps > 0 THEN 1 ELSE 0,
         quality |-> quality,
         semitones |-> semitones,
         undirected |-> undirected,
         simpleUndirected |-> simpleSteps + 1]

\* the values real_indexer returns: None, a unicode string, or a float (a
\* number of whole tones, kept as twice its value)
NoneValue == [type |-> "NoneType", str |-> <<>>, x2 |-> 0]

Unicode(str) == [type |-> "unicode", str |-> str, x2 |-> 0]

Float(twice) == [type |-> "float", str |-> <<>>, x2 |-> twice]

\* lines 128-151: the label once both notes are made
interval_label(interv, simple, quality, byTones) ==
    LET sign == IF interv.direction < 0 THEN <<"-">> ELSE <<>>
        post1 == IF quality THEN Unicode(sign \o <<interv.quality>>)
                 ELSE IF byTones THEN Float(interv.semitones)
                 ELSE Unicode(sign)
    IN  IF simple /\ quality
          THEN Unicode(post1.str \o (IF interv.undirected = 8 THEN <<"8">>
                                     ELSE SizeString(interv.simpleUndirected)))
        ELSE IF quality THEN Unicode(post1.str \o SizeString(interv.undirected))
        ELSE IF simple /\ byTones
          THEN Float(IF post1.x2 >= 0 THEN post1.x2 % 12 ELSE -((-post1.x2) % 12))
        ELSE post1

\* a real_indexer that lets the PitchException of a rest go up
real_indexer_uncaught(simultaneity, simple, quality, byTones) ==
    IF Len(simultaneity) # 2 THEN Returned(NoneValue)
    ELSE IF ~pitch_ok(simultaneity[2]) \/ ~pitch_ok(simultaneity[1])
      THEN [status |-> "PitchException", value |-> NoneValue]
    ELSE Returned(interval_label(Interval(simultaneity[2], simultaneity[1]),
                                 simple, quality, byTones))

\* lines 105-151
real_indexer(simultaneity, simple, quality, byTones) ==
    IF Len(simultaneity) # 2 THEN Returned(NoneValue)
    ELSE IF ~pitch_ok(simultaneity[2]) \/ ~pitch_ok(simultaneity[1])
      THEN Returned(Unicode(Rest))
    ELSE Returned(interval_label(Interval(simultaneity[2], simultaneity[1]),
                                 simple, quality, byTones))

InitIndexer ==
    /\ InitPiece
    /\ importable = TRUE
    /\ left = <<>>
    /\ right = <<>>
    /\ post = Pending
    /\ args \in [simultaneity : Simultaneities, simple : BOOLEAN, quality : BOOLEAN,
                  byTones : BOOLEAN]
    /\ wm = NewManager
    /\ log = <<>>

\* real_indexer(simultaneity, simple, quality, byTones) is called
Classify ==
    /\ post = Pending
    /\ post' = real_indexer(args.simultaneity, args.simple, args.quality, args.byTones)
    /\ UNCHANGED <<left, right, pieceVars, args, managerVars>>

NextIndexer == Classify

SpecIndexer == InitIndexer /\ [][NextIndexer]_vars

\* C14: when either of the two events is 'Rest', real_indexer returns 'Rest'
\* and does not raise, whatever simple, quality and byTones are.
C14_RestGivesRest ==
    (post # Pending /\ Len(args.simultaneity) = 2
       /\ (args.simultaneity[1] = Rest \/ args.simultaneity[2] = Rest))
    => post = Returned(Unicode(Rest))

C14_Witness ==
    /\ post = Returned(Unicode(Rest))
    /\ args.simultaneity = <<<<"E", "4">>, Rest>>
    /\ args.byTones /\ args.simple /\ ~args.quality

\* C15: without quality and without byTones, simple or compound, the label of
\* two pitches is the generic size, with '-' before it when the interval
\* descends.
C15_BareSizeLabel ==
    (post # Pending /\ ~args.quality /\ ~args.byTones /\ Len(args.simultaneity) = 2
       /\ Rest \notin {args.simultaneity[1], args.simultaneity[2]})
    => LET interv == Interval(args.simultaneity[2], args.simultaneity[1])
           size == IF ~args.simple THEN interv.undirected
                   ELSE IF interv.undirected = 8 THEN 8 ELSE interv.simpleUndirected
       IN  post = Returned(Unicode((IF interv.direction < 0 THEN <<"-">> ELSE <<>>)
                                   \o SizeString(size)))

----------------------------------------------------------------------------
(* IntervalsStatistics.perform (models/experimenting.py 563-630) and        *)
(* IntervalNGramStatistics.perform (809-928).                               *)
(* A record is a sequence of events; an event is the pair of the note names *)
(* (or 'Rest') of the two voices, each_event[1] in the code.                *)

MaxEvents == 3          \* most events of the first record

EventChoices ==
    {<<<<"C", "4">>, <<"E", "4">>>>, <<<<"D", "4">>, <<"F", "4">>>>,
     <<Rest, <<"E", "4">>>>, <<<<"C", "4">>, Rest>>}

RecordChoices == UNION {[1..n -> EventChoices] : n \in 0..MaxEvents}

\* self._records: one record, or two
RecordLists ==
    {<<r>> : r \in RecordChoices}
      \cup {<<r, <<<<<<"C", "4">>, <<"E", "4">>>>, <<<<"D", "4">>, <<"F", "4">>>>>>>> : r \in RecordChoices}

\* an optional setting: <<>> is None, <<v>> holds the value v
Unset == <<>>

\* the ExperimentSettings of the two experiments
IntervalSettings ==
    [experiment : {"intervals"}, records : RecordLists, quality : BOOLEAN,
     simple_or_compound : {"simple", "compound"}, values_of_n : {<<>>},
     topX : {Unset, <<0>>, <<1>>, <<2>>}, threshold : {Unset, <<2>>},
     sort_order : {"ascending", "descending"}, sort_by : {"frequency", "name"}]

NGramSettings ==
    [experiment : {"ngrams"}, records : RecordLists, quality : {TRUE},
     simple_or_compound : {"compound"}, values_of_n : {<<2>>, <<2, 3>>, <<3, 2>>},
     topX : {Unset, <<0>>, <<1>>, <<2>>}, threshold : {Unset, <<2>>},
     sort_order : {"ascending", "descending"}, sort_by : {"frequency", "name"}]

\* lines 578 and 834: 'Rest' is one of the two notes of the event
has_rest(event) == event[1] = Rest \/ event[2] = Rest

\* lines 583-592: the name of a vertical interval under the settings
interval_name(event, quality, interval_size) ==
    LET interv == Interval(event[1], event[2])
        size == IF interval_size = "simple" /\ interv.undirected # 8
                  THEN interv.simpleUndirected ELSE interv.undirected
    IN  IF quality THEN <<interv.quality>> \o SizeString(size)
        ELSE (IF interv.direction < 0 THEN <<"-">> ELSE <<>>) \o SizeString(size)

\* the movement of the lower voice from one event to the next
horizontal_name(event, next_event, quality, interval_size) ==
    LET interv == Interval(event[1], next_event[1])
        sign == IF interv.direction < 0 THEN <<"-">>
                ELSE IF interv.direction > 0 THEN <<"+">> ELSE <<>>
    IN  sign \o (IF quality THEN <<interv.quality>> ELSE <<>>) \o SizeString(interv.undirected)

\* IntervalNGram.get_string_version: vertical intervals and horizontal
\* movements alternate, separated by spaces, a vertical interval first and last
RECURSIVE get_string_version(_, _, _)
get_string_version(events, quality, interval_size) ==
    IF Len(events) = 1 THEN interval_name(events[1], quality, interval_size)
    ELSE interval_name(events[1], quality, interval_size) \o <<" ">>
         \o horizontal_name(events[1], events[2], quality, interval_size) \o <<" ">>
         \o get_string_version(Tail(events), quality, interval_size)

\* sorted(list of ints), lines 826
RECURSIVE sorted_ints(_)
sorted_ints(ns) ==
    IF ns = <<>> THEN <<>>
    ELSE LET j == CHOOSE j \in DOMAIN ns : \A k \in DOMAIN ns : ns[j] <= ns[k]
         IN  <<ns[j]>> \o sorted_ints(SubSeq(ns, 1, j - 1) \o SubSeq(ns, j + 1, Len(ns)))

\* an extension loop that runs one index too far
extends_one_further(record, i, each_n) ==
    \A j \in 1..each_n : i + j <= Len(record) /\ ~has_rest(record[i + j])

\* lines 851-864: the loop over j leaves kill_switch False
extends(record, i, each_n) ==
    \A j \in 1..(each_n - 1) : i + j <= Len(record) /\ ~has_rest(record[i + j])

\* lines 842-873: the values of n for which an n-gram is added at index i
RECURSIVE counted_ns(_, _, _)
counted_ns(record, i, values_of_n) ==
    IF values_of_n = <<>> THEN <<>>
    ELSE IF ~extends(record, i, Head(values_of_n)) THEN <<>>
    ELSE <<Head(values_of_n)>> \o counted_ns(record, i, Tail(values_of_n))

\* one call of _add_ngram or _add_interval: the token, and where it came from
Added(k, i, n, token) == [k |-> k, i |-> i, n |-> n, token |-> token]

\* lines 830-873: the n-grams added for the start index i of record k
RECURSIVE ngrams_at(_, _, _, _, _)
ngrams_at(k, record, i, ns, a) ==
    IF ns = <<>> THEN <<>>
    ELSE <<Added(k, i, Head(ns),
                 get_string_version(SubSeq(record, i, i + Head(ns) - 1),
                                    a.quality, a.simple_or_compound))>>
         \o ngrams_at(k, record, i, Tail(ns), a)

\* lines 576-592 and 829-873: what one index of a record adds
added_at(k, record, i, a) ==
    IF has_rest(record[i]) THEN <<>>
    ELSE IF a.experiment = "intervals"
      THEN <<Added(k, i, 1, interval_name(record[i], a.quality, a.simple_or_compound))>>
    ELSE ngrams_at(k, record, i, counted_ns(record, i, sorted_ints(a.values_of_n)), a)

RECURSIVE added_in_record(_, _, _, _)
added_in_record(k, record, i, a) ==
    IF i > Len(record) THEN <<>>
    ELSE added_at(k, record, i, a) \o added_in_record(k, record, i + 1, a)

\* step (1): every call of _add_interval / _add_ngram, in order
RECURSIVE added_in(_, _)
added_in(k, a) ==
    IF k > Len(a.records) THEN <<>>
    ELSE added_in_record(k, a.records[k], 1, a) \o added_in(k + 1, a)

\* self._intervals / self._ngrams: token -> occurrences
occurrences(added) ==
    [token \in {added[j].token : j \in DOMAIN added} |->
       Cardinality({j \in DOMAIN added : added[j].token = token})]

\* the orders in which a dict may hand out its keys
dict_orders(d) ==
    {order \in [1..Cardinality(DOMAIN d) -> DOMAIN d] :
       \A j, k \in DOMAIN order : j # k => order[j] # order[k]}

RemoveAt(seq, j) == SubSeq(seq, 1, j - 1) \o SubSeq(seq, j + 1, Len(seq))

\* sorted(keys, key=lambda x: d[x], reverse=...): stable in both directions
RECURSIVE sorted_by_frequency(_, _, _)
sorted_by_frequency(keys, d, reverse) ==
    IF keys = <<>> THEN <<>>
    ELSE LET first(j) == \A k \in DOMAIN keys :
                            /\ IF reverse THEN d[keys[k]] <= d[keys[j]]
                                          ELSE d[keys[j]] <= d[keys[k]]
                            /\ (k < j => d[keys[k]] # d[keys[j]])
             j == CHOOSE j \in DOMAIN keys : first(j)
         IN  <<keys[j]>> \o sorted_by_frequency(RemoveAt(keys, j), d, reverse)

\* a comparison sorted() may make raises
cmp_raises(keys) ==
    \E j, k \in DOMAIN keys : j # k /\ interval_sorter(keys[j], keys[k]).status # "returned"

\* sorted(keys, cmp=interval_sorter, reverse=...) when no comparison raises
RECURSIVE sorted_by_cmp(_, _)
sorted_by_cmp(keys, reverse) ==
    IF keys = <<>> THEN <<>>
    ELSE LET before(x, y) == IF reverse THEN interval_sorter(x, y).value > 0
                                          ELSE interval_sorter(x, y).value < 0
             first(j) == \A k \in DOMAIN keys :
                            /\ ~before(keys[k], keys[j])
                            /\ (k < j => before(keys[j], keys[k]))
             j == CHOOSE j \in DOMAIN keys : first(j)
         IN  <<keys[j]>> \o sorted_by_cmp(RemoveAt(keys, j), reverse)

Keys(status, keys) == [status |-> status, keys |-> keys]

\* steps (2.1)-(4), lines 598-625 and 878-905: the keys the filters keep
filter_keys(d, order, topX, threshold) ==
    IF topX = Unset /\ threshold = Unset THEN Keys("ok", order)
    ELSE LET by_frequency == sorted_by_frequency(order, d, TRUE)
             cut == IF topX = Unset THEN by_frequency
                    ELSE SubSeq(by_frequency, 1,
                                IF topX[1] < Len(order) THEN topX[1] ELSE Len(order))
         IN  IF threshold = Unset THEN Keys("ok", cut)
             ELSE IF cut = <<>> THEN Keys("IndexError", <<>>)
             ELSE IF d[cut[Len(cut)]] < threshold[1]
               THEN Keys("ok", SelectSeq(cut, LAMBDA key : d[key] >= threshold[1]))
             ELSE Keys("ok", cut)

\* the final sorting, lines 627-638 and 907-918 (both with interval_sorter)
final_sort(keys, d, sort_order, sort_by) ==
    LET should_reverse == sort_order # "ascending"
    IN  IF sort_by = "frequency" THEN Keys("ok", sorted_by_frequency(keys, d, should_reverse))
        ELSE IF cmp_raises(keys) THEN Keys("ValueError", <<>>)
        ELSE Keys("ok", sorted_by_cmp(keys, should_reverse))

Performed(status, value, added) == [status |-> status, value |-> value, added |-> added]

\* perform(), the dict handing out its keys in the given order
perform(a, added, order) ==
    LET d == occurrences(added)
        kept == filter_keys(d, order, a.topX, a.threshold)
        sorted == final_sort(kept.keys, d, a.sort_order, a.sort_by)
    IN  IF kept.status # "ok" THEN Performed(kept.status, <<>>, added)
        ELSE IF sorted.status # "ok" THEN Performed(sorted.status, <<>>, added)
        ELSE Performed("returned",
                       [j \in DOMAIN sorted.keys |-> <<sorted.keys[j], d[sorted.keys[j]]>>],
                       added)

InitStatistics ==
    /\ InitPiece
    /\ importable = TRUE
    /\ left = <<>>
    /\ right = <<>>
    /\ post = Pending
    /\ args \in IntervalSettings \cup NGramSettings
    /\ wm = NewManager
    /\ log = <<>>

\* IntervalsStatistics.perform() is called
PerformIntervals ==
    /\ post = Pending
    /\ args.experiment = "intervals"
    /\ LET added == added_in(1, args)
       IN  \E order \in dict_orders(occurrences(added)) : post' = perform(args, added, order)
    /\ UNCHANGED <<left, right, pieceVars, args, managerVars>>

\* IntervalNGramStatistics.perform() is called
PerformNGrams ==
    /\ post = Pending
    /\ args.experiment = "ngrams"
    /\ LET added == added_in(1, args)
       IN  \E order \in dict_orders(occurrences(added)) : post' = perform(args, added, order)
    /\ UNCHANGED <<left, right, pieceVars, args, managerVars>>

NextStatistics == PerformIntervals \/ PerformNGrams

SpecStatistics == InitStatistics /\ [][NextStatistics]_vars

----------------------------------------------------------------------------
(* What the statistics claims speak of *)

\* positions i .. i+n-1 lie inside the record and none of them has a rest
WindowWithoutRest(record, i, n) ==
    /\ i + n - 1 <= Len(record)
    /\ \A q \in i..(i + n - 1) : ~has_rest(record[q])

\* how many n-grams perform added for record k, start index i and size n
TimesAdded(k, i, n) ==
    Cardinality({j \in DOMAIN post.added :
                   post.added[j].k = k /\ post.added[j].i = i /\ post.added[j].n = n})

RequestedNs == {args.values_of_n[j] : j \in DOMAIN args.values_of_n}

\* C16: in IntervalNGramStatistics.perform one n-gram is counted for a start
\* index i and a requested n exactly when positions i .. i+n-1 are inside the
\* record and free of rests, and none is counted otherwise (so none at an
\* index with a rest, and none for a larger n once a smaller n failed).
C16_OneNGramPerWindow ==
    (post # Pending /\ args.experiment = "ngrams")
    => /\ \A k \in DOMAIN args.records : \A i \in DOMAIN args.records[k] :
            \A n \in RequestedNs :
               TimesAdded(k, i, n) = IF WindowWithoutRest(args.records[k], i, n) THEN 1 ELSE 0
       /\ \A j \in DOMAIN post.added :
            /\ post.added[j].n \in RequestedNs
            /\ post.added[j].k \in DOMAIN args.records
            /\ post.added[j].i \in DOMAIN args.records[post.added[j].k]

C16_Witness ==
    /\ post # Pending
    /\ post.status = "returned"
    /\ args.experiment = "ngrams"
    /\ args.values_of_n = <<3, 2>>
    /\ Len(args.records) = 1
    /\ Len(args.records[1]) = 3
    /\ has_rest(args.records[1][3])
    /\ TimesAdded(1, 1, 2) = 1
    /\ TimesAdded(1, 1, 3) = 0
    /\ TimesAdded(1, 2, 2) = 0

ReturnedTokens == {post.value[j][1] : j \in DOMAIN post.value}

Min(a, b) == IF a < b THEN a ELSE b

\* C17: with a threshold T and a top-K value both set, perform returns the K
\* highest-frequency tokens among those whose count is at least T.
C17_ThresholdThenTopX ==
    (post # Pending /\ args.topX # Unset /\ args.threshold # Unset
       /\ args.sort_by = "frequency")
    => LET d == occurrences(post.added)
           remaining == {token \in DOMAIN d : d[token] >= args.threshold[1]}
       IN  /\ post.status = "returned"
           /\ ReturnedTokens \subseteq remaining
           /\ Cardinality(ReturnedTokens) = Min(args.topX[1], Cardinality(remaining))
           /\ \A kept \in ReturnedTokens : \A other \in remaining \ ReturnedTokens :
                 d[other] <= d[kept]
           /\ \A j \in DOMAIN post.value : post.value[j][2] = d[post.value[j][1]]

\* C19: sorted by token, IntervalNGramStatistics.perform returns the n-grams
\* in ngram_sorter's order, reversed unless sort_order is 'ascending'.
C19_SortedByNGramSorter ==
    (post # Pending /\ args.experiment = "ngrams" /\ args.sort_by = "name"
       /\ args.topX = Unset /\ args.threshold = Unset)
    => /\ post.status = "returned"
       /\ \A j \in 1..(Len(post.value) - 1) :
            LET order == ngram_sorter(post.value[j][1], post.value[j + 1][1])
            IN  /\ order.status = "returned"
                /\ IF args.sort_order = "ascending" THEN order.value <= 0
                                                      ELSE order.value >= 0

----------------------------------------------------------------------------
(* WorkflowManager._get_dataframe (workflow.py 557-581).                    *)
(* A Series is the sequence of its <<index, value>> entries.                *)

MaxSeries == 3          \* most entries of the Series in self._result

\* pandas.Series(values), with the default index 0, 1, ...
Series(values) == [j \in DOMAIN values |-> <<j - 1, values[j]>>]

SeriesChoices == {Series(values) : values \in UNION {[1..n -> 1..3] : n \in 0..MaxSeries}}

\* post[:top_x] for top_x >= 0
first_entries(series, top_x) ==
    SubSeq(series, 1, IF top_x < Len(series) THEN top_x ELSE Len(series))

\* lines 574-581: the column of the DataFrame returned
get_dataframe(result, top_x, threshold) ==
    LET post1 == IF threshold # Unset
                   THEN SelectSeq(result, LAMBDA entry : entry[2] > threshold[1])
                   ELSE result
    IN  IF top_x # Unset THEN first_entries(post1, top_x[1]) ELSE post1

InitDataFrame ==
    /\ InitPiece
    /\ importable = TRUE
    /\ left = <<>>
    /\ right = <<>>
    /\ post = Pending
    /\ args \in [result : SeriesChoices, top_x : {Unset, <<0>>, <<1>>, <<2>>},
                  threshold : {Unset, <<1>>, <<2>>, <<3>>}]
    /\ wm = NewManager
    /\ log = <<>>

\* _get_dataframe(u'data', top_x, threshold) is called with the Series in self._result
GetDataFrame ==
    /\ post = Pending
    /\ post' = Returned(get_dataframe(args.result, args.top_x, args.threshold))
    /\ UNCHANGED <<left, right, pieceVars, args, managerVars>>

NextDataFrame == GetDataFrame

SpecDataFrame == InitDataFrame /\ [][NextDataFrame]_vars

\* the sub-series of the entries that satisfy a test, cut to the first top_x
FirstOfKept(keep(_)) ==
    LET kept == IF args.threshold = Unset THEN args.result
                ELSE SelectSeq(args.result, keep)
    IN  IF args.top_x = Unset THEN kept ELSE first_entries(kept, args.top_x[1])

\* C18: the threshold filter comes first and top_x second, and the column is
\* the first top_x entries of the sub-series of the results that are greater
\* than or equal to threshold.
C18_KeepsAtLeastThreshold ==
    post # Pending
    => post = Returned(FirstOfKept(LAMBDA entry : entry[2] >= args.threshold[1]))

----------------------------------------------------------------------------
(* WorkflowManager.load, run, export and output (workflow.py 121-215,       *)
(* 583-702). An instruction of run() is the sequence of its characters.     *)

MaxOps == 3             \* calls made on one WorkflowManager

intervals == <<"i", "n", "t", "e", "r", "v", "a", "l", "s">>

interval_ngrams ==
    <<"i", "n", "t", "e", "r", "v", "a", "l", " ", "n", "-", "g", "r", "a", "m", "s">>

\* lines 199-200
possible_instructions == <<intervals, interval_ngrams>>

\* the instructions given to run(): the two experiments, 'too short', and
\* 'interval classes'
RunInstructions ==
    {intervals, interval_ngrams, <<"t", "o", "o", " ", "s", "h", "o", "r", "t">>,
     <<"i", "n", "t", "e", "r", "v", "a", "l", " ", "c", "l", "a", "s", "s", "e", "s">>,
     <<"i", "n", "t">>}

LoadInstructions == {"pieces", "hdf5", "something"}

ExportForms == {"CSV", "Excel", "PowerPoint"}

OutputInstructions == {"LilyPond", "R histogram", "something"}

\* the formats of the directory at lines 688-691
directory == {"CSV", "Stata", "Excel", "HTML"}

\* str.startswith
startswith(str, prefix) ==
    Len(str) >= Len(prefix) /\ SubSeq(str, 1, Len(prefix)) = prefix

\* min([len(x) for x in possible_instructions])
shortest_instruction ==
    IF Len(possible_instructions[1]) < Len(possible_instructions[2])
      THEN Len(possible_instructions[1]) ELSE Len(possible_instructions[2])

\* what _intervs() and _interval_ngrams() return when they do: the aggregated
\* frequencies (a Series), or the lists of the pieces when 'count frequency' is off
ExperimentResults == {Result("Series", Series(<<2, 1>>)), Result("list", <<>>)}

Logged(op, arg, ended) == [op |-> op, arg |-> arg, outcome |-> ended]

\* a run() that does not look at self._loaded
load_not_required(m) == FALSE

\* line 196: if self._loaded is not True
not_loaded(m) == m.loaded # TRUE

\* line 693: the form is one of the directory
known_form(form) == form \in directory

\* load(instruction), lines 121-169
Load(instruction) ==
    /\ Len(log) < MaxOps
    /\ IF instruction = "pieces"
         THEN \E imported \in BOOLEAN :
                IF imported
                  THEN /\ wm' = [wm EXCEPT !.loaded = TRUE]
                       /\ log' = Append(log, Logged("load", instruction, "returned"))
                  ELSE \* get_data raises for a piece that cannot be imported
                       /\ wm' = wm
                       /\ log' = Append(log, Logged("load", instruction, "IOError"))
       ELSE IF instruction \in {"hdf5", "stata", "pickle"}
         THEN /\ wm' = wm
              /\ log' = Append(log, Logged("load", instruction, "NotImplementedError"))
       ELSE /\ wm' = wm
            /\ log' = Append(log, Logged("load", instruction, "RuntimeError"))
    /\ UNCHANGED <<pieceVars, sorterVars, args>>

\* run(instruction), lines 171-215, with _intervs / _interval_ngrams either
\* returning a result or raising after they reset self._result (436, 244)
RunExperiment(instruction) ==
    /\ Len(log) < MaxOps
    /\ IF not_loaded(wm) \/ Len(instruction) < shortest_instruction
          \/ (~startswith(instruction, possible_instructions[1])
               /\ ~startswith(instruction, possible_instructions[2]))
         THEN /\ wm' = wm
              /\ log' = Append(log, Logged("run", instruction, "RuntimeError"))
         ELSE LET experiment == IF startswith(instruction, possible_instructions[1])
                                  THEN "intervals" ELSE "n-grams"
              IN  \/ \E result \in ExperimentResults :
                       /\ wm' = [wm EXCEPT !.previous_exp = experiment, !.result = result]
                       /\ log' = Append(log, Logged("run", instruction, "returned"))
                  \/ /\ wm' = [wm EXCEPT !.previous_exp = experiment,
                                          !.result = Result("list", <<>>)]
                     /\ log' = Append(log, Logged("run", instruction, "ValueError"))
    /\ UNCHANGED <<pieceVars, sorterVars, args>>

\* an export, with the column of the DataFrame written to the file
Exported(form, ended, column) ==
    [op |-> "export", arg |-> form, outcome |-> ended, column |-> column]

\* export(form, pathname, top_x, threshold), lines 645-702; a list in
\* self._result is the empty list of a manager without pieces, and selecting
\* from it with a threshold raises IndexError
Export(form, top_x, threshold) ==
    /\ Len(log) < MaxOps
    /\ wm' = wm
    /\ IF wm.result.type = "NoneType"
         THEN log' = Append(log, Exported(form, "RuntimeError", <<>>))
       ELSE IF wm.result.type = "list" /\ threshold # Unset
         THEN log' = Append(log, Exported(form, "IndexError", <<>>))
       ELSE IF ~known_form(form)
         THEN log' = Append(log, Exported(form, "RuntimeError", <<>>))
       ELSE log' = Append(log, Exported(form, "returned",
                                        get_dataframe(wm.result.values, top_x, threshold)))
    /\ UNCHANGED <<pieceVars, sorterVars, args>>

\* output(instruction, pathname, top_x, threshold), lines 583-643
Output(instruction) ==
    /\ Len(log) < MaxOps
    /\ wm' = wm
    /\ IF instruction = "LilyPond"
         THEN log' = Append(log, Logged("output", instruction, "NotImplementedError"))
       ELSE IF instruction = "R histogram"
         THEN IF wm.result.type = "NoneType"
                THEN log' = Append(log, Logged("output", instruction, "RuntimeError"))
                ELSE \E r_failed \in BOOLEAN :
                       log' = Append(log, Logged("output", instruction,
                                                 IF r_failed THEN "RuntimeError" ELSE "returned"))
       ELSE log' = Append(log, Logged("output", instruction, "RuntimeError"))
    /\ UNCHANGED <<pieceVars, sorterVars, args>>

InitWorkflow ==
    /\ InitPiece
    /\ importable = TRUE
    /\ left = <<>>
    /\ right = <<>>
    /\ post = Pending
    /\ args = <<>>
    /\ wm = NewManager
    /\ log = <<>>

NextWorkflow ==
    \/ \E instruction \in LoadInstructions : Load(instruction)
    \/ \E instruction \in RunInstructions : RunExperiment(instruction)
    \/ \E form \in ExportForms, top_x \in {Unset, <<1>>}, threshold \in {Unset, <<1>>} :
          Export(form, top_x, threshold)
    \/ \E instruction \in OutputInstructions : Output(instruction)

SpecWorkflow == InitWorkflow /\ [][NextWorkflow]_vars

\* C20: run raises RuntimeError unless load('pieces') has completed before it,
\* and export and output('R histogram') raise RuntimeError when run was never
\* called before them on the manager.
C20_LoadRunExportOrder ==
    \A j \in DOMAIN log :
       /\ (log[j].op = "run"
            /\ ~\E k \in 1..(j - 1) : log[k] = Logged("load", "pieces", "returned"))
          => log[j].outcome = "RuntimeError"
       /\ ((log[j].op = "export" \/ (log[j].op = "output" /\ log[j].arg = "R histogram"))
            /\ ~\E k \in 1..(j - 1) : log[k].op = "run")
          => log[j].outcome = "RuntimeError"

C20_Witness ==
    /\ Len(log) = 3
    /\ log[1] = Logged("run", intervals, "RuntimeError")
    /\ log[2] = Logged("load", "pieces", "returned")
    /\ log[3] = Exported("CSV", "RuntimeError", <<>>)

----------------------------------------------------------------------------
(* WorkflowManager: the pieces it holds and their settings (workflow.py) *)

MaxPieces == 2          \* pathnames given to WorkflowManager()
OpusSize == 2           \* pieces in a file that imports as an Opus

\* Python values of the settings: None, unicode strings, ints and bools
Integer(n) == [type |-> "int", str |-> <<>>, x2 |-> n]

Bool(b) == [type |-> "bool", str |-> <<>>, x2 |-> IF b THEN 1 ELSE 0]

all == <<"a", "l", "l">>

\* what the file of a pathname imports as; get_data raises OpusWarning for an
\* Opus and IOError for a file that cannot be read
Kinds == {"Score", "Opus", "Unreadable"}

IndexedPiece(pathname, kind) == [pathname |-> pathname, kind |-> kind]

Pathnames == UNION {[1..n -> Kinds] : n \in 0..MaxPieces}

\* lines 94-99: the settings of one piece
piece_settings ==
    [field \in {"offset interval", "voice combinations", "filter repeats"} |->
        IF field = "filter repeats" THEN Bool(FALSE) ELSE NoneValue]

\* lines 101-103
shared_settings ==
    [field \in {"n", "continuer", "mark singles", "interval quality", "simple intervals",
                "include rests", "count frequency"} |->
        CASE field = "n" -> Integer(2)
          [] field = "continuer" -> Unicode(<<"_">>)
          [] field = "count frequency" -> Bool(TRUE)
          [] OTHER -> Bool(FALSE)]

\* WorkflowManager.__init__(pathnames), lines 83-107
WorkflowManager(pathnames) ==
    [data |-> [i \in DOMAIN pathnames |-> IndexedPiece(<<i>>, pathnames[i])],
     result |-> Result("NoneType", <<>>),
     settings |-> [i \in DOMAIN pathnames |-> piece_settings],
     shared_settings |-> shared_settings,
     previous_exp |-> None,
     loaded |-> FALSE]

\* get_data(..., known_opus=True), line 163: the pieces of an Opus
new_ips(piece) == [c \in 1..OpusSize |-> IndexedPiece(Append(piece.pathname, c), "Score")]

Loaded(status, pieces) == [status |-> status, data |-> pieces]

\* lines 159-164: enumerate() walks the list self._data named when the loop
\* began (old), while line 164 binds self._data to a new list each time
RECURSIVE load_loop(_, _, _)
load_loop(old, i, pieces) ==
    IF i >= Len(old)
      THEN Loaded("returned", pieces)
      ELSE LET piece == old[i + 1]
           IN  IF piece.kind = "Unreadable"
                 THEN Loaded("IOError", pieces)
               ELSE IF piece.kind = "Opus"
                 THEN load_loop(old, i + 1,
                                SubSeq(pieces, 1, i) \o SubSeq(pieces, i + 2, Len(pieces))
                                  \o new_ips(piece))
               ELSE load_loop(old, i + 1, pieces)

Raised(status) == [status |-> status, value |-> NoneValue]

\* load(instruction), lines 158-169, over the pieces of the manager
LoadManager(instruction) ==
    /\ args' = [op |-> "load", manager |-> wm, instruction |-> instruction]
    /\ IF instruction = "pieces"
         THEN LET imported == load_loop(wm.data, 0, wm.data)
              IN  IF imported.status = "returned"
                    THEN /\ wm' = [wm EXCEPT !.data = imported.data, !.loaded = TRUE]
                         /\ post' = Returned(NoneValue)
                    ELSE /\ wm' = [wm EXCEPT !.data = imported.data]
                         /\ post' = Raised(imported.status)
       ELSE IF instruction \in {"hdf5", "stata", "pickle"}
         THEN /\ wm' = wm
              /\ post' = Raised("NotImplementedError")
       ELSE /\ wm' = wm
            /\ post' = Raised("RuntimeError")
    /\ UNCHANGED <<pieceVars, left, right, log>>

Setting(status, value, manager) == [status |-> status, value |-> value, manager |-> manager]

\* a settings() that takes no field for a shared one
never_shared(m, field) == FALSE

\* line 794: if field in self._shared_settings
is_shared(m, field) == field \in DOMAIN m.shared_settings

\* settings(index, field, value), lines 794-814; index is Unset for None
RECURSIVE settings(_, _, _, _)
RECURSIVE settings_loop(_, _, _, _)
settings(m, index, field, value) ==
    IF is_shared(m, field)
      THEN IF value = NoneValue
             THEN Setting("returned", m.shared_settings[field], m)
             ELSE Setting("returned", NoneValue, [m EXCEPT !.shared_settings[field] = value])
    ELSE IF index = Unset
      THEN IF value = NoneValue
             THEN Setting("ValueError", NoneValue, m)
             ELSE settings_loop(m, 0, field, value)
    ELSE IF ~(0 <= index[1] /\ index[1] < Len(m.settings))
      THEN Setting("IndexError", NoneValue, m)
    ELSE IF field \notin DOMAIN m.settings[index[1] + 1]
      THEN Setting("AttributeError", NoneValue, m)
    ELSE IF value = NoneValue
      THEN Setting("returned", m.settings[index[1] + 1][field], m)
    ELSE IF field = "offset interval" /\ value.type \in {"int", "bool", "float"} /\ value.x2 = 0
      THEN Setting("returned", NoneValue, [m EXCEPT !.settings[index[1] + 1][field] = NoneValue])
    ELSE Setting("returned", NoneValue, [m EXCEPT !.settings[index[1] + 1][field] = value])

\* lines 803-804: for i in xrange(len(self._settings)): self.settings(i, field, value)
settings_loop(m, i, field, value) ==
    IF i >= Len(m.settings)
      THEN Setting("returned", NoneValue, m)
      ELSE LET this == settings(m, <<i>>, field, value)
           IN  IF this.status # "returned"
                 THEN this
                 ELSE settings_loop(this.manager, i + 1, field, value)

Indices == {Unset} \cup {<<i>> : i \in -1..MaxPieces}

Fields == {"n", "voice combinations", "cheese"}

Values == {NoneValue, Unicode(all)}

Settings(index, field, value) ==
    LET this == settings(wm, index, field, value)
    IN  /\ args' = [op |-> "settings", manager |-> wm, index |-> index, field |-> field,
                    value |-> value]
        /\ wm' = this.manager
        /\ post' = [status |-> this.status, value |-> this.value]
        /\ UNCHANGED <<pieceVars, left, right, log>>

\* lines 249 and 446: the 'voice combinations' of every piece held are read
first_without_settings(m) ==
    \E i \in 1..Len(m.data) : i > Len(m.settings)

\* run(instruction), lines 196-215, over the pieces of the manager; the
\* experiment reads the settings of each piece, and then returns its result or
\* raises as in RunExperiment
RunManager(instruction) ==
    /\ args' = [op |-> "run", manager |-> wm, instruction |-> instruction]
    /\ IF not_loaded(wm) \/ Len(instruction) < shortest_instruction
          \/ (~startswith(instruction, possible_instructions[1])
               /\ ~startswith(instruction, possible_instructions[2]))
         THEN /\ wm' = wm
              /\ post' = Raised("RuntimeError")
         ELSE LET experiment == IF startswith(instruction, possible_instructions[1])
                                  THEN "intervals" ELSE "n-grams"
              IN  IF first_without_settings(wm)
                    THEN /\ wm' = [wm EXCEPT !.previous_exp = experiment,
                                             !.result = Result("list", <<>>)]
                         /\ post' = Raised("IndexError")
                    ELSE \/ \E result \in ExperimentResults :
                              /\ wm' = [wm EXCEPT !.previous_exp = experiment,
                                                  !.result = result]
                              /\ post' = Returned(NoneValue)
                         \/ /\ wm' = [wm EXCEPT !.previous_exp = experiment,
                                                !.result = Result("list", <<>>)]
                            /\ post' = Raised("ValueError")
    /\ UNCHANGED <<pieceVars, left, right, log>>

InitManager ==
    /\ InitPiece
    /\ importable = TRUE
    /\ left = <<>>
    /\ right = <<>>
    /\ post = Pending
    /\ args = <<>>
    /\ log = <<>>
    /\ \E pathnames \in Pathnames : wm = WorkflowManager(pathnames)

NextManager ==
    \/ \E instruction \in LoadInstructions : LoadManager(instruction)
    \/ \E index \in Indices, field \in Fields, value \in Values : Settings(index, field, value)
    \/ \E instruction \in {intervals, interval_ngrams} : RunManager(instruction)

SpecManager == InitManager /\ [][NextManager]_vars

Called(op) == args # <<>> /\ args.op = op

Held(pieces, piece) == Cardinality({i \in DOMAIN pieces : pieces[i] = piece})

\* C26: after load('pieces') has returned, each piece that imports as an Opus
\* is no longer held and all of its constituent pieces are, and every piece
\* that is not an Opus is still held exactly once.
C26_OpusReplaced ==
    (Called("load") /\ args.instruction = "pieces" /\ post.status = "returned") =>
      \A i \in DOMAIN args.manager.data :
         LET piece == args.manager.data[i]
         IN  IF piece.kind = "Opus"
               THEN /\ Held(wm.data, piece) = 0
                    /\ \A c \in 1..OpusSize : Held(wm.data, new_ips(piece)[c]) >= 1
               ELSE Held(wm.data, piece) = 1

\* C27: the list of per-piece settings has exactly one entry per held piece.
C27_OneSettingsPerPiece == Len(wm.settings) = Len(wm.data)

----------------------------------------------------------------------------
(* The 'voice combinations' of a piece: _intervs, _interval_ngrams,
   _variable_part_modules and _remove_extra_pairs (workflow.py) *)

MaxParts == 3           \* parts of a piece

all_pairs == <<"a", "l", "l", " ", "p", "a", "i", "r", "s">>

\* the setting as the caller writes it; the strings hold brackets, commas,
\* spaces, digits and letters only
CombinationStrings ==
    {<<"[", "[", "0", ",", " ", "1", "]", "]">>,
     <<"[", "[", "0", ",", " ", "1", "]", ",", " ", "[", "0", ",", " ", "5", "]", "]">>,
     <<"[", "[", "0", ",", " ", "5", "]", "]">>,
     <<"[", "[", "1", ",", " ", "0", "]", "]">>,
     <<"[", "[", "0", ",", " ", "1", ",", " ", "2", "]", "]">>,
     <<"[", "[", "0", ",", " ", "1", "]", ",", " ", "[", "1", ",", " ", "2", "]", "]">>,
     <<"[", "[", "0", ",", " ", "1", "]", ",", " ", "[", "0", ",", " ", "1", ",", " ", "2", "]", ",", " ", "[", "4", ",", " ", "5", "]", "]">>,
     <<"[", "]">>,
     <<"[", "[", "]", "]">>,
     <<"[", "0", ",", " ", "1", "]">>,
     <<"7">>,
     <<"c", "h", "e", "e", "s", "e">>,
     <<"[", "[", "0", ",">>,
     <<"N", "o", "n", "e">>}

VoiceCombinations == {NoneValue, Unicode(all), Unicode(all_pairs)}
                        \cup {Unicode(str) : str \in CombinationStrings}

\* a Python list, and a name in an expression that is parsed
List(items) == [type |-> "list", items |-> items]

Name(str) == [type |-> "Name", str |-> str]

\* str() of an int that is not negative
RECURSIVE decimal(_)
decimal(n) == IF n < 10 THEN <<DigitChar(n)>> ELSE decimal(n \div 10) \o <<DigitChar(n % 10)>>

\* unicode(value) and str(value) of None, a string, an int or a list
RECURSIVE to_unicode(_)
RECURSIVE joined(_)
to_unicode(value) ==
    CASE value.type = "NoneType" -> <<"N", "o", "n", "e">>
      [] value.type = "unicode" -> value.str
      [] value.type = "int" -> decimal(value.x2)
      [] value.type = "list" -> <<"[">> \o joined(value.items) \o <<"]">>

joined(items) ==
    IF items = <<>> THEN <<>>
    ELSE IF Len(items) = 1 THEN to_unicode(items[1])
    ELSE to_unicode(items[1]) \o <<",", " ">> \o joined(Tail(items))

letters ==
    {"a", "c", "e", "h", "i", "l", "n", "o", "p", "r", "s", "N"}

Parsed(status, value, next) == [status |-> status, value |-> value, next |-> next]

\* the first position from p on that holds no space
RECURSIVE skip(_, _)
skip(str, p) == IF p <= Len(str) /\ str[p] = " " THEN skip(str, p + 1) ELSE p

\* the first position from p on that holds no character of the set
RECURSIVE run_end(_, _, _)
run_end(str, p, chars) ==
    IF p <= Len(str) /\ str[p] \in chars THEN run_end(str, p + 1, chars) ELSE p

\* ast.parse(str, mode='eval') for a number, a name or a list display
RECURSIVE parse_expr(_, _)
RECURSIVE parse_items(_, _, _)
parse_expr(str, from) ==
    LET p == skip(str, from)
    IN  IF p > Len(str)
          THEN Parsed("SyntaxError", NoneValue, p)
        ELSE IF str[p] \in string_digits
          THEN LET e == run_end(str, p, string_digits)
               IN  Parsed("returned", Integer(int(SubSeq(str, p, e - 1))), e)
        ELSE IF str[p] \in letters
          THEN LET e == run_end(str, p, letters \cup string_digits)
               IN  Parsed("returned", Name(SubSeq(str, p, e - 1)), e)
        ELSE IF str[p] = "["
          THEN parse_items(str, p + 1, <<>>)
        ELSE Parsed("SyntaxError", NoneValue, p)

parse_items(str, from, items) ==
    LET p == skip(str, from)
    IN  IF p > Len(str)
          THEN Parsed("SyntaxError", NoneValue, p)
        ELSE IF str[p] = "]"
          THEN Parsed("returned", List(items), p + 1)
        ELSE LET this == parse_expr(str, p)
                 q == skip(str, this.next)
             IN  IF this.status # "returned"
                   THEN this
                 ELSE IF q > Len(str)
                   THEN Parsed("SyntaxError", NoneValue, q)
                 ELSE IF str[q] = ","
                   THEN parse_items(str, q + 1, Append(items, this.value))
                 ELSE IF str[q] = "]"
                   THEN Parsed("returned", List(Append(items, this.value)), q + 1)
                 ELSE Parsed("SyntaxError", NoneValue, q)

\* the names literal_eval accepts
safe_names == {<<"N", "o", "n", "e">>, <<"T", "r", "u", "e">>, <<"F", "a", "l", "s", "e">>}

\* literal_eval's _convert raises ValueError('malformed string') for a node
\* that is no literal
RECURSIVE malformed(_)
malformed(node) ==
    CASE node.type = "Name" -> node.str \notin safe_names
      [] node.type = "list" -> \E j \in DOMAIN node.items : malformed(node.items[j])
      [] OTHER -> FALSE

RECURSIVE convert(_)
convert(node) ==
    CASE node.type = "Name" ->
             IF node.str = <<"N", "o", "n", "e">> THEN NoneValue
             ELSE Bool(node.str = <<"T", "r", "u", "e">>)
      [] node.type = "list" -> List([j \in DOMAIN node.items |-> convert(node.items[j])])
      [] OTHER -> node

Evaluated(status, value) == [status |-> status, value |-> value]

\* ast.literal_eval(str)
literal_eval(str) ==
    LET parsed == parse_expr(str, 1)
    IN  IF parsed.status # "returned" \/ skip(str, parsed.next) <= Len(str)
          THEN Evaluated("SyntaxError", NoneValue)
        ELSE IF malformed(parsed.value)
          THEN Evaluated("ValueError", NoneValue)
        ELSE Evaluated("returned", convert(parsed.value))

\* the key of a pair of parts in the result of IntervalIndexer
pair_key(upper, lower) == to_unicode(upper) \o <<",">> \o to_unicode(lower)

\* interval.py 303-305: for left in xrange(len(self._score)), for right in
\* xrange(left + 1, len(self._score))
part_pairs(parts) == {pair \in (0..(parts - 1)) \X (0..(parts - 1)) : pair[1] < pair[2]}

\* IntervalIndexer.run (interval.py 300-313) for a piece of so many parts:
\* one entry for every pair of parts, the lower number first
vert_ints_of(parts) ==
    [key \in {pair_key(Integer(pair[1]), Integer(pair[2])) : pair \in part_pairs(parts)}
       |-> key]

\* what a call of _remove_extra_pairs did: how it ended, the dict it
\* returned, and the dict it was given as it is after the call
Removed(status, returned, given) ==
    [status |-> status, returned |-> returned, given |-> given]

\* lines 542-545
these_pairs(combos) ==
    {pair_key(combos.items[j].items[1], combos.items[j].items[2]) :
       j \in {j \in DOMAIN combos.items : Len(combos.items[j].items) = 2}}

\* _remove_extra_pairs(vert_ints, combos), lines 542-555
remove_extra_pairs(vert_ints, combos) ==
    IF combos.type # "list"
      THEN Removed("TypeError", EmptyDict, vert_ints)
    ELSE IF \E j \in DOMAIN combos.items : combos.items[j].type # "list"
      THEN Removed("TypeError", EmptyDict, vert_ints)
    ELSE IF these_pairs(combos) = {}
      THEN Removed("returned", EmptyDict, vert_ints)
    ELSE LET delete_these == {key \in DOMAIN vert_ints : key \notin these_pairs(combos)}
             left_over == [key \in (DOMAIN vert_ints) \ delete_these |-> vert_ints[key]]
         IN  Removed("returned", left_over, left_over)

\* what an experiment did for one piece: how it ended, and the combinations
\* of parts whose results it holds
Analysed(status, combinations) == [status |-> status, combinations |-> combinations]

\* _intervs for one piece, lines 442-450
intervs(parts, setting) ==
    LET vert_ints == vert_ints_of(parts)
        combos == to_unicode(setting)
    IN  IF combos # all /\ combos # all_pairs /\ combos # <<"N", "o", "n", "e">>
          THEN LET evaluated == literal_eval(combos)
                   removed == remove_extra_pairs(vert_ints, evaluated.value)
               IN  IF evaluated.status # "returned"
                     THEN Analysed(evaluated.status, {})
                   ELSE IF removed.status # "returned"
                     THEN Analysed(removed.status, {})
                   ELSE Analysed("returned", DOMAIN removed.returned)
          ELSE Analysed("returned", DOMAIN vert_ints)

\* the ints of a combination
ints(combo) == [j \in DOMAIN combo.items |-> combo.items[j].x2]

\* lines 301-313: for combo in needed_combos
RECURSIVE combos_loop(_, _, _, _)
combos_loop(parts, needed_combos, j, done) ==
    IF j > Len(needed_combos)
      THEN Analysed("returned", done)
      ELSE LET combo == needed_combos[j]
           IN  IF combo.type # "list"
                 THEN Analysed("TypeError", {})
               ELSE IF \E i \in 1..(Len(combo.items) - 1) :
                          pair_key(combo.items[i], combo.items[Len(combo.items)])
                            \notin DOMAIN vert_ints_of(parts)
                 THEN Analysed("KeyError", {})
               ELSE IF combo.items = <<>>
                 THEN Analysed("IndexError", {})
               ELSE IF combo.items[Len(combo.items)].type # "int"
                 THEN Analysed("TypeError", {})
               ELSE IF combo.items[Len(combo.items)].x2 >= parts
                 THEN Analysed("IndexError", {})
               ELSE combos_loop(parts, needed_combos, j + 1, done \cup {ints(combo)})

\* _variable_part_modules(index), lines 298-314
variable_part_modules(parts, setting) ==
    LET needed_combos == literal_eval(to_unicode(setting))
    IN  IF needed_combos.status # "returned"
          THEN Analysed(needed_combos.status, {})
        ELSE IF needed_combos.value.type # "list"
          THEN Analysed("TypeError", {})
        ELSE combos_loop(parts, needed_combos.value.items, 1, {})

\* _two_part_modules(index), lines 346-362: every pair of parts
two_part_modules(parts) ==
    Analysed("returned", part_pairs(parts))

\* _all_part_modules(index), lines 397-411: all the parts at once
all_part_modules(parts) == Analysed("returned", {[j \in 1..parts |-> j - 1]})

\* _interval_ngrams for one piece, lines 249-258
run_interval_ngrams(parts, setting) ==
    LET combos == to_unicode(setting)
    IN  IF combos # all /\ combos # all_pairs /\ literal_eval(combos).status # "returned"
          THEN Analysed(literal_eval(combos).status, {})
        ELSE IF Unicode(all) = setting
          THEN all_part_modules(parts)
        ELSE IF Unicode(all_pairs) = setting
          THEN two_part_modules(parts)
        ELSE variable_part_modules(parts, setting)

InitCombinations ==
    /\ InitPiece
    /\ importable = TRUE
    /\ left = <<>>
    /\ right = <<>>
    /\ post = Pending
    /\ \/ args \in [op : {"intervals", "interval n-grams"}, parts : 1..MaxParts,
                    setting : VoiceCombinations]
       \/ args \in [op : {"_remove_extra_pairs"}, parts : 1..MaxParts,
                    combos : {str \in CombinationStrings : literal_eval(str).status = "returned"}]
    /\ wm = NewManager
    /\ log = <<>>

\* run('intervals') reaches a piece with this setting
RunIntervals ==
    /\ post = Pending
    /\ args.op = "intervals"
    /\ post' = intervs(args.parts, args.setting)
    /\ UNCHANGED <<left, right, pieceVars, args, managerVars>>

\* run('interval n-grams') reaches a piece with this setting
RunNGrams ==
    /\ post = Pending
    /\ args.op = "interval n-grams"
    /\ post' = run_interval_ngrams(args.parts, args.setting)
    /\ UNCHANGED <<left, right, pieceVars, args, managerVars>>

\* _remove_extra_pairs(vert_ints, combos) is called with the result of
\* IntervalIndexer and the list that args.combos writes
RemoveExtraPairs ==
    /\ post = Pending
    /\ args.op = "_remove_extra_pairs"
    /\ post' = remove_extra_pairs(vert_ints_of(args.parts), literal_eval(args.combos).value)
    /\ UNCHANGED <<left, right, pieceVars, args, managerVars>>

NextCombinations == RunIntervals \/ RunNGrams \/ RemoveExtraPairs

SpecCombinations == InitCombinations /\ [][NextCombinations]_vars

----------------------------------------------------------------------------
(* What the claims about voice combinations speak of *)

\* the setting is an explicit list of combinations, each a list of part numbers
IsCombinationList(setting) ==
    /\ setting.type = "unicode"
    /\ LET evaluated == literal_eval(setting.str)
       IN  /\ evaluated.status = "returned"
           /\ evaluated.value.type = "list"
           /\ \A j \in DOMAIN evaluated.value.items :
                 /\ evaluated.value.items[j].type = "list"
                 /\ \A k \in DOMAIN evaluated.value.items[j].items :
                       evaluated.value.items[j].items[k].type = "int"

Combinations(setting) ==
    LET listed == literal_eval(setting.str).value.items
    IN  {ints(listed[j]) : j \in DOMAIN listed}

\* the piece has the pair of parts that an 'intervals' run needs for the
\* combination
PairAvailable(parts, combo) ==
    Len(combo) = 2 /\ <<combo[1], combo[2]>> \in part_pairs(parts)

\* the piece has every pair of parts that an 'interval n-grams' run needs
\* for the combination: each upper part with the lowest part
PartsAvailable(parts, combo) ==
    /\ Len(combo) >= 2
    /\ \A i \in 1..(Len(combo) - 1) : <<combo[i], combo[Len(combo)]>> \in part_pairs(parts)

\* C22: with an explicit list of voice combinations, run completes for the
\* piece, both for 'intervals' and for 'interval n-grams'; the combinations
\* that the piece does not have are dropped and exactly the others are
\* analysed.
C22_InvalidCombinationsDropped ==
    (post.status # "pending" /\ args.op \in {"intervals", "interval n-grams"}
       /\ IsCombinationList(args.setting))
    => /\ post.status = "returned"
       /\ IF args.op = "intervals"
            THEN post.combinations =
                   {pair_key(Integer(combo[1]), Integer(combo[2])) :
                      combo \in {c \in Combinations(args.setting) :
                                   PairAvailable(args.parts, c)}}
            ELSE post.combinations =
                   {c \in Combinations(args.setting) : PartsAvailable(args.parts, c)}

\* the setting selects combinations that the piece has
ValidSelection(parts, setting) ==
    \/ setting \in {Unicode(all), Unicode(all_pairs)}
    \/ /\ IsCombinationList(setting)
       /\ \A combo \in Combinations(setting) : PartsAvailable(parts, combo)

\* C23: run('interval n-grams') raises ValueError for a piece whose 'voice
\* combinations' setting is still None or is not a valid selection.
C23_ValueErrorWhenUnsetOrInvalid ==
    (post.status # "pending" /\ args.op = "interval n-grams"
       /\ (args.setting = NoneValue \/ ~ValidSelection(args.parts, args.setting)))
    => post.status = "ValueError"

\* C28: _remove_extra_pairs leaves the mapping it was given as it was.
C28_GivenMappingUnchanged ==
    (post.status # "pending" /\ args.op = "_remove_extra_pairs")
    => post.given = vert_ints_of(args.parts)

----------------------------------------------------------------------------
(* HorizontalIntervalIndexer.run (vis/analyzers/indexers/interval.py) *)

\* the events of a part and the distance from one event to the next
PartEvents == {<<"C", "4">>, <<"E", "4">>, <<"G", "4">>, Rest}

Distances == {1, 2}

RECURSIVE offset_of(_, _)
offset_of(choice, j) == IF j = 1 THEN 0 ELSE offset_of(choice, j - 1) + choice[j][1]

\* the Series of one part that NoteRestIndexer gives: <<offset, event>>
\* entries, the offsets rising
Parts ==
    {[j \in DOMAIN choice |-> <<offset_of(choice, j), choice[j][2]>>] :
       choice \in UNION {[1..n -> Distances \X PartEvents] : n \in 0..MaxEvents}}

\* lines 246-259: the settings of the indexer
IndexerSettings == [simple : BOOLEAN, quality : BOOLEAN, byTones : BOOLEAN]

\* lines 264-278 and 156-205: the arguments that the indexer function chosen
\* for the settings gives to real_indexer
indexer_func(setts) ==
    IF setts.byTones THEN [simple |-> setts.simple, quality |-> FALSE, byTones |-> TRUE]
    ELSE IF setts.quality THEN [simple |-> setts.simple, quality |-> TRUE, byTones |-> FALSE]
    ELSE [simple |-> setts.simple, quality |-> FALSE, byTones |-> FALSE]

\* Indexer._do_multiprocessing for one combination of two Series that have
\* the same index: the indexer function is applied to the two values at each
\* offset, the first Series of the combination giving the first value
do_multiprocessing(first, second, func) ==
    [j \in DOMAIN first |->
       <<first[j][1],
         real_indexer(<<first[j][2], second[j][2]>>, func.simple, func.quality,
                      func.byTones).value>>]

\* x.iloc[1:], line 364
iloc_from_1(x) == [j \in 1..(Len(x) - 1) |-> x[j + 1]]

\* pandas.Series(x.values[:-1], index=x.index.tolist()[1:]), line 365
values_shifted(x) == [j \in 1..(Len(x) - 1) |-> <<x[j + 1][1], x[j][2]>>]

\* HorizontalIntervalIndexer.run for one part, lines 363-381
horizontal_run(part, setts) ==
    Returned(do_multiprocessing(iloc_from_1(part), values_shifted(part), indexer_func(setts)))

InitHorizontal ==
    /\ InitPiece
    /\ importable = TRUE
    /\ left = <<>>
    /\ right = <<>>
    /\ post = Pending
    /\ args \in [part : Parts, settings : IndexerSettings]
    /\ wm = NewManager
    /\ log = <<>>

\* HorizontalIntervalIndexer(the_notes, settings).run() is called
RunHorizontal ==
    /\ post = Pending
    /\ post' = horizontal_run(args.part, args.settings)
    /\ UNCHANGED <<left, right, pieceVars, args, managerVars>>

NextHorizontal == RunHorizontal

SpecHorizontal == InitHorizontal /\ [][NextHorizontal]_vars

\* C24: for a part with k events, k >= 1, the output holds k-1 horizontal
\* intervals, and the offset of each is the offset of the first of the two
\* successive events it is made of.
C24_OffsetOfFirstNote ==
    (post.status # "pending" /\ Len(args.part) >= 1)
    => /\ Len(post.value) = Len(args.part) - 1
       /\ \A j \in DOMAIN post.value : post.value[j][1] = args.part[j][1]

----------------------------------------------------------------------------
(* IntervalNGramStatistics.perform: the Interval objects it builds
   (models/experimenting.py 842-867) *)

\* lines 851-860: the first j in 1 .. each_n-1 at which the loop breaks, or
\* each_n when it does not break
first_break(record, i, each_n) ==
    IF extends(record, i, each_n) THEN each_n
    ELSE CHOOSE j \in 1..(each_n - 1) :
           /\ i + j > Len(record) \/ has_rest(record[i + j])
           /\ \A q \in 1..(j - 1) : i + q <= Len(record) /\ ~has_rest(record[i + q])

\* lines 842-867: the indices of the record for which an Interval is built
\* while the n-grams that start at index i are made, in the order of the
\* calls: line 844 builds the one of index i anew for each n, lines 863-864
\* the ones that follow it
RECURSIVE interval_calls(_, _, _)
interval_calls(record, i, values_of_n) ==
    IF values_of_n = <<>> THEN <<>>
    ELSE LET each_n == Head(values_of_n)
             this_n == [j \in 1..first_break(record, i, each_n) |-> i + j - 1]
         IN  IF extends(record, i, each_n)
               THEN this_n \o interval_calls(record, i, Tail(values_of_n))
               ELSE this_n

\* how many times the Interval of index p is built for the start index i
TimesBuilt(record, i, p) ==
    LET built == interval_calls(record, i, sorted_ints(args.values_of_n))
    IN  Cardinality({j \in DOMAIN built : built[j] = p})

\* C25: while the n-grams of one start index are built for the requested
\* values of n, the vertical interval of each position is computed at most
\* once.
C25_IntervalOncePerStartIndex ==
    (post.status # "pending" /\ args.experiment = "ngrams")
    => \A k \in DOMAIN args.records : \A i \in DOMAIN args.records[k] :
          ~has_rest(args.records[k][i])
          => \A p \in DOMAIN args.records[k] : TimesBuilt(args.records[k], i, p) <= 1

----------------------------------------------------------------------------
(* IndexedPiece: the cache after a run() that raised *)

\* no add_index call is under way
Quiescent == \A c \in Callers : stacks[c] = <<>>

\* C29: when no add_index call is under way, every indexer name present in
\* the cache maps to at least one stored (settings -> result) entry; a request
\* whose run() raised has left no entry of its own behind.
C29_NoEmptyCacheEntry ==
    Quiescent => \A u \in DOMAIN data : data[u] # EmptyDict

----------------------------------------------------------------------------
(* perform with a threshold and nothing left to filter *)

\* C30: when a threshold is set and no candidate token is left to filter (no
\* token was counted in any record, or topX is 0), both performs complete and
\* return an empty list.
C30_EmptyWhenNothingToFilter ==
    (post.status # "pending" /\ args.threshold # Unset
       /\ (post.added = <<>> \/ args.topX = <<0>>))
    => post.status = "returned" /\ post.value = <<>>

====
